---- MODULE Spec2Model ----
(***************************************************************************)
(* A model of the Top Eleven automation bot: the YOLO detection wrapper    *)
(* (Modules/Bot/yolo_image_handler.py), the template-matching waits        *)
(* (Modules/Bot/image_handler.py, Modules/bluestacks.py), the farming       *)
(* sequence (Modules/farm_resources.py) and the key listener that stops it  *)
(* (Modules/Bot/input_handler.py, main.py).                                 *)
(*                                                                         *)
(* Python's None is the empty sequence <<>> and a value v that is not None *)
(* is the one-element sequence <<v>>.                                      *)
(***************************************************************************)
EXTENDS Integers, Sequences, FiniteSets, TLC

\* ------------------------------------------------------------------ bounds

\* Largest number of boxes the detector reports for one screenshot.
MaxDet == 2
\* Confidence scores are the ordered levels 1..MaxConf.
MaxConf == 2

\* Largest timeout, in seconds, a wait is called with.
MaxTimeout == 5
\* Largest number of image files a skip or close directory holds.
MaxDirImages == 2
\* Farming cycles one continuous_farming call is followed through.
MaxCycles == 2
\* The most keyboard listeners followed.
MaxListeners == 2

\* ------------------------------------------------------------------- state

\* The YOLO wrapper applied to one screenshot.
VARIABLES
    yDets,      \* the raw detections of the screenshot: <<[bbox, confidence, class_id]>>
    yErr,       \* TRUE when screenshot/predict raises inside find_objects_on_screen
    yOp,        \* the method applied to the screenshot, "none" before
    yArg,       \* its argument: a set of class names, or one class name
    yRes        \* what it returned

\* One run of a wait loop.
VARIABLES
    wFn,        \* the wait running: "wait_for_class", "wait_for_image", "wait_for_bluestacks_ready"
    wArg,       \* class_name or image_path
    wTimeout,   \* timeout, in seconds
    wFile,      \* whether the BlueStacks window image file exists
    wPc,        \* "start", "loop" (at the while test) or "done" (returned)
    wElapsed,   \* time.time() - start_time at the last reading
    wChecks,    \* check_count
    wSeen,      \* some check so far had the target on screen
    wRes        \* the return value, None until the wait returns

\* The farmer, the launcher and the threads that run them.
VARIABLES
    farming_active, \* ResourceFarmer.farming_active
    th,             \* per thread: where it is, its locals, and what it did so far
    listeners,      \* the number of keyboard listeners started and never stopped
    f3Done,         \* F3's stop_farming ran during continuous_farming, no F2 since
    f2,             \* "paused" after F2 paused the Farm command, "resumed" after the next F2
    gap,            \* continuous_farming's cycles and the sleeps between them (history)
    obs,            \* per thread: what it has been observed to do (history)
    observe         \* whether obs is being recorded

yoloVars == <<yDets, yErr, yOp, yArg, yRes>>
waitVars == <<wFn, wArg, wTimeout, wFile, wPc, wElapsed, wChecks, wSeen, wRes>>
farmVars == <<farming_active, th, listeners, f3Done, f2, gap, obs, observe>>

vars == <<yoloVars, waitVars, farmVars>>

\* What an action of one component leaves alone: the other components.
notYolo == <<waitVars, farmVars>>
notWait == <<yoloVars, farmVars>>
notFarm == <<yoloVars, waitVars>>

\* ----------------------------------------------------------- YOLO wrapper


None == <<>>
Some(v) == <<v>>

\* self.class_names: the model's id -> name table (model.names).
class_names == (0 :> "close_ad") @@ (1 :> "skip_ad")

\* Class ids the detector may report; 2 has no entry in class_names.
ClassIds == {0, 1, 2}

\* f"class_{class_id}", the default of class_names.get, for the ids without a name.
FallbackName == [i \in {2} |-> "class_2"]

\* class_names.get(int(class_id), f"class_{class_id}")
ClassNameOf(class_id) ==
    IF class_id \in DOMAIN class_names THEN class_names[class_id]
    ELSE FallbackName[class_id]

\* Class names a caller may ask for; "rest_icon" is one the detector never reports.
AskedNames == {"close_ad", "skip_ad", "class_2", "rest_icon"}

\* Bounding boxes <<x1, y1, x2, y2>> in pixels; two have an odd x1 + x2 or y1 + y2.
Boxes == {<<0, 0, 1, 1>>, <<3, 1, 6, 4>>}

RawDetections == [bbox : Boxes, confidence : 1..MaxConf, class_id : ClassIds]

DetSeqs == UNION {[1..n -> RawDetections] : n \in 0..MaxDet}

\* int((a + b) / 2) for pixel coordinates a, b >= 0: int() truncates.
Midpoint(a, b) == (a + b) \div 2

\* The obj_info dictionary built for one detection.
ObjInfo(d) ==
    [class_name   |-> ClassNameOf(d.class_id),
     confidence   |-> d.confidence,
     center_point |-> <<Midpoint(d.bbox[1], d.bbox[3]), Midpoint(d.bbox[2], d.bbox[4])>>,
     bbox         |-> d.bbox]

\* The filter dropped: every detection is kept whatever its class.
SkippedNever(target_classes, name) == FALSE

\* "if target_classes and class_name not in target_classes: continue":
\* an empty (or None) target_classes is falsy and filters nothing.
Skipped(target_classes, name) ==
    target_classes # {} /\ name \notin target_classes

RECURSIVE KeepTargets(_, _)
KeepTargets(dets, target_classes) ==
    IF dets = <<>> THEN <<>>
    ELSE IF Skipped(target_classes, ClassNameOf(Head(dets).class_id))
         THEN KeepTargets(Tail(dets), target_classes)
         ELSE <<ObjInfo(Head(dets))>> \o KeepTargets(Tail(dets), target_classes)

\* find_objects_on_screen: the obj_info list, or [] when anything raised.
find_objects_on_screen(dets, err, target_classes) ==
    IF err THEN <<>> ELSE KeepTargets(dets, target_classes)

\* The first detection taken instead of the most confident one.
FirstObject(objs) == objs[1]

\* max(detected_objects, key=lambda obj: obj['confidence']): the first maximum.
MaxByConfidence(objs) ==
    objs[CHOOSE i \in 1..Len(objs) :
            /\ \A j \in 1..Len(objs) : objs[j].confidence <= objs[i].confidence
            /\ \A j \in 1..(i - 1) : objs[j].confidence < objs[i].confidence]

\* find_best_match
find_best_match(dets, err, target_classes) ==
    LET detected_objects == find_objects_on_screen(dets, err, target_classes)
    IN  IF detected_objects = <<>> THEN None
        ELSE Some(MaxByConfidence(detected_objects))

\* find_class_on_screen: "if best_match:" is true of every non-empty dict.
find_class_on_screen(dets, err, class_name) ==
    LET best_match == find_best_match(dets, err, {class_name})
    IN  IF best_match # None THEN Some(best_match[1].center_point) ELSE None

YoloInit ==
    /\ yDets \in DetSeqs
    /\ yErr \in BOOLEAN
    /\ yOp = "none"
    /\ yArg = {}
    /\ yRes = None

FindBestMatch(target_classes) ==
    /\ yOp = "none"
    /\ yOp' = "find_best_match"
    /\ yArg' = target_classes
    /\ yRes' = find_best_match(yDets, yErr, target_classes)
    /\ UNCHANGED <<yDets, yErr>>
    /\ UNCHANGED notYolo

FindClassOnScreen(class_name) ==
    /\ yOp = "none"
    /\ yOp' = "find_class_on_screen"
    /\ yArg' = class_name
    /\ yRes' = find_class_on_screen(yDets, yErr, class_name)
    /\ UNCHANGED <<yDets, yErr>>
    /\ UNCHANGED notYolo

\* The handler idle: no screenshot under study.
YoloIdle ==
    /\ yDets = <<>>
    /\ yErr = FALSE
    /\ yOp = "none"
    /\ yArg = {}
    /\ yRes = None

\* ------------------------------------------------------------- wait loops

\* time.sleep(2) of wait_for_class
ClassSleep == 2
\* time.sleep(3) of wait_for_image
ImageSleep == 3
\* time.sleep(3) of wait_for_bluestacks_ready
ReadySleep == 3
\* time.sleep(60) of wait_for_bluestacks_ready when the window image file is missing
AssumeReadySleep == 60

\* Seconds one load-and-detect pass may take.
DetectTimes == {0, 1}

\* Centre points a template match may be reported at.
Points == {<<0, 0>>, <<40, 30>>}

\* What pyautogui.locateOnScreen leaves find_image_on_screen with: nothing, or
\* a match whose centre is one of Points.
Located == {None} \cup {Some(p) : p \in Points}

\* self.assets_paths.get('bluestacks_window'): a non-empty string
bluestacks_window_pattern == "Assets/BlueStacks/bluestacks_window.png"

ImagePaths == {"watch_ads_green_windowed.png", bluestacks_window_pattern}

\* "if x:" of a str: the empty string is falsy.
StrTruthy(str) == str # ""

\* A point counted as found only away from the screen's origin.
PointTruthyOffOrigin(point) == point # None /\ point[1] # <<0, 0>>

\* "if point:" of an Optional[Point]: None is falsy, a Point (a 2-tuple) never is.
PointTruthy(point) == point # None

\* ImageHandler.load_image: the image, or None when PIL.Image.open raised.
load_image(path, opens) == IF opens THEN Some(path) ELSE None

\* ImageHandler.find_image_on_screen: the match's centre; None when the image
\* is not located, is None (locateOnScreen raises) or anything else raised.
find_image_on_screen(image, located, raised) ==
    IF image = None \/ raised \/ located = None THEN None ELSE located

\* What wait_for_image returns: True at line 99 (found) and True at line 104
\* (the loop ran out).
wait_for_image_result(found) == IF found THEN TRUE ELSE TRUE

\* What wait_for_bluestacks_ready returns: True at line 306 (found) and True at
\* line 312 (the loop ran out, "Proceeding anyway").
wait_for_bluestacks_ready_result(found) == IF found THEN TRUE ELSE TRUE

WaitInit ==
    /\ wFn \in {"wait_for_class", "wait_for_image", "wait_for_bluestacks_ready"}
    /\ wArg \in CASE wFn = "wait_for_class" -> AskedNames
                  [] wFn = "wait_for_image" -> ImagePaths
                  [] OTHER -> {bluestacks_window_pattern}
    /\ wTimeout \in 0..MaxTimeout
    /\ wFile \in IF wFn = "wait_for_bluestacks_ready" THEN BOOLEAN ELSE {TRUE}
    /\ wPc = "start"
    /\ wElapsed = 0
    /\ wChecks = 0
    /\ wSeen = FALSE
    /\ wRes = None

WaitIdle ==
    /\ wFn = "none"
    /\ wArg = ""
    /\ wTimeout = 0
    /\ wFile = TRUE
    /\ wPc = "done"
    /\ wElapsed = 0
    /\ wChecks = 0
    /\ wSeen = FALSE
    /\ wRes = None

WaitReturn(value) ==
    /\ wPc' = "done"
    /\ wRes' = Some(value)

\* wait_for_class, lines 465-468: start_time = time.time(); check_count = 0
WaitClassStart ==
    /\ wFn = "wait_for_class" /\ wPc = "start"
    /\ wPc' = "loop"
    /\ UNCHANGED <<wFn, wArg, wTimeout, wFile, wElapsed, wChecks, wSeen, wRes>>
    /\ UNCHANGED notWait

\* wait_for_class, lines 470-479: one pass of the while loop.
WaitClassCheck ==
    /\ wFn = "wait_for_class" /\ wPc = "loop"
    /\ wElapsed < wTimeout
    /\ wChecks' = wChecks + 1
    /\ \E dets \in DetSeqs, err \in BOOLEAN, took \in DetectTimes :
          LET point == find_class_on_screen(dets, err, wArg)
          IN  /\ wSeen' = (wSeen \/ (~err /\ \E i \in 1..Len(dets) :
                                        ClassNameOf(dets[i].class_id) = wArg))
              /\ IF PointTruthy(point)
                 THEN /\ WaitReturn(TRUE)
                      /\ wElapsed' = wElapsed + took
                 ELSE /\ wElapsed' = wElapsed + took + ClassSleep
                      /\ UNCHANGED <<wPc, wRes>>
    /\ UNCHANGED <<wFn, wArg, wTimeout, wFile>>
    /\ UNCHANGED notWait

\* wait_for_class, lines 481-482: the while test fails.
WaitClassTimeout ==
    /\ wFn = "wait_for_class" /\ wPc = "loop"
    /\ ~(wElapsed < wTimeout)
    /\ WaitReturn(FALSE)
    /\ UNCHANGED <<wFn, wArg, wTimeout, wFile, wElapsed, wChecks, wSeen>>
    /\ UNCHANGED notWait

\* wait_for_image, lines 83-88
WaitImageStart ==
    /\ wFn = "wait_for_image" /\ wPc = "start"
    /\ wPc' = "loop"
    /\ UNCHANGED <<wFn, wArg, wTimeout, wFile, wElapsed, wChecks, wSeen, wRes>>
    /\ UNCHANGED notWait

\* One pass of an image wait's loop: load the image, look for it, return True
\* when found, else sleep.
ImageCheck(sleep, value_when_found) ==
    /\ wElapsed < wTimeout
    /\ wChecks' = wChecks + 1
    /\ \E opens \in BOOLEAN, located \in Located, raised \in BOOLEAN, took \in DetectTimes :
          LET window_image == load_image(wArg, opens)
              point == IF window_image # None
                       THEN find_image_on_screen(window_image, located, raised)
                       ELSE None
          IN  /\ wSeen' = (wSeen \/ (opens /\ ~raised /\ located # None))
              /\ IF PointTruthy(point)
                 THEN /\ WaitReturn(value_when_found)
                      /\ wElapsed' = wElapsed + took
                 ELSE /\ wElapsed' = wElapsed + took + sleep
                      /\ UNCHANGED <<wPc, wRes>>
    /\ UNCHANGED <<wFn, wArg, wTimeout, wFile>>
    /\ UNCHANGED notWait

\* wait_for_image, lines 89-101
WaitImageCheck ==
    /\ wFn = "wait_for_image" /\ wPc = "loop"
    /\ ImageCheck(ImageSleep, wait_for_image_result(TRUE))

\* wait_for_image, lines 103-104: the while test fails; the method returns True.
WaitImageTimeout ==
    /\ wFn = "wait_for_image" /\ wPc = "loop"
    /\ ~(wElapsed < wTimeout)
    /\ WaitReturn(wait_for_image_result(FALSE))
    /\ UNCHANGED <<wFn, wArg, wTimeout, wFile, wElapsed, wChecks, wSeen>>
    /\ UNCHANGED notWait

\* wait_for_bluestacks_ready, lines 280-294
WaitReadyStart ==
    /\ wFn = "wait_for_bluestacks_ready" /\ wPc = "start"
    /\ IF StrTruthy(bluestacks_window_pattern) /\ ~wFile
       THEN /\ wElapsed' = AssumeReadySleep
            /\ WaitReturn(TRUE)
       ELSE /\ wPc' = "loop"
            /\ UNCHANGED <<wElapsed, wRes>>
    /\ UNCHANGED <<wFn, wArg, wTimeout, wFile, wChecks, wSeen>>
    /\ UNCHANGED notWait

\* wait_for_bluestacks_ready, lines 295-308
WaitReadyCheck ==
    /\ wFn = "wait_for_bluestacks_ready" /\ wPc = "loop"
    /\ StrTruthy(bluestacks_window_pattern)
    /\ ImageCheck(ReadySleep, wait_for_bluestacks_ready_result(TRUE))

\* wait_for_bluestacks_ready, lines 310-312: the while test fails; "Proceeding
\* anyway", the method returns True.
WaitReadyTimeout ==
    /\ wFn = "wait_for_bluestacks_ready" /\ wPc = "loop"
    /\ ~(wElapsed < wTimeout)
    /\ WaitReturn(wait_for_bluestacks_ready_result(FALSE))
    /\ UNCHANGED <<wFn, wArg, wTimeout, wFile, wElapsed, wChecks, wSeen>>
    /\ UNCHANGED notWait

\* ------------------------------------------------------ the farming sequence

\* Two threads started by execute_threaded and pynput's listener thread.
Threads == {"worker", "worker2", "listener"}

\* An image file: the rest icon, the watch-ads button, the no-th file of the
\* skip or close directory, or one of the launcher's assets.
Img(name, no) == [name |-> name, no |-> no]

rest_icon == Img("rest_icon_dark_background.png", 0)
watch_ads == Img("watch_ads_green_windowed.png", 0)

\* What a thread has done since it entered start_farming.
SfFresh ==
    [missing |-> FALSE, first |-> None, rest |-> FALSE, watch |-> FALSE,
     slept |-> FALSE, skip |-> FALSE, close |-> FALSE,
     watch_after_rest |-> TRUE, slept_after_watch |-> TRUE,
     skip_after_sleep |-> TRUE, close_after_skip |-> TRUE,
     loads |-> FALSE, finds |-> FALSE, clicks |-> FALSE, sleeps |-> FALSE,
     running |-> TRUE, result |-> None]

\* What a thread has done since it entered run_farming_cycle.
CycFresh ==
    [active |-> TRUE, rest |-> "unknown",
     loads |-> FALSE, finds |-> FALSE, clicks |-> FALSE,
     running |-> TRUE, result |-> "none"]

\* continuous_farming before its first cycle: no cycle has ended without a
\* sleep since, the last test of farming_active after a cycle (none yet) did
\* not see it false, and nothing went wrong.
GapFresh == [unslept |-> FALSE, saw |-> TRUE, flag |-> "ok"]

\* A thread that runs nothing: its position, the labels its calls return to,
\* the last call's return value and its locals.
ThreadIdle ==
    [pc |-> "idle", stack |-> <<>>, ret |-> None,
     point |-> None, dir |-> "", idx |-> 0, n |-> 0,
     ads_handled |-> FALSE, clicked_start |-> FALSE, green_count |-> 0, x |-> 0]

\* Nothing observed of a thread yet.
ObsFresh ==
    [lastFind |-> None, lastClick |-> None,
     sf |-> [SfFresh EXCEPT !.running = FALSE],
     cyc |-> [CycFresh EXCEPT !.running = FALSE],
     steps |-> <<>>, reports |-> <<>>, launched |-> None]

\* ResourceFarmer.__init__ and InputHandler.__init__: farming_active = False,
\* keyboard_listener = None.
FarmInit(recording) ==
    /\ farming_active = FALSE
    /\ th = [t \in Threads |-> ThreadIdle]
    /\ listeners = 0
    /\ f3Done = FALSE
    /\ f2 = "none"
    /\ gap = GapFresh
    /\ obs = [t \in Threads |-> ObsFresh]
    /\ observe = recording

Upd(t, s) == th' = [th EXCEPT ![t] = s]

\* Record o as what thread t has been observed to do.
Rec(t, o) == obs' = IF observe THEN [obs EXCEPT ![t] = o] ELSE obs

Goto(s, label) == [s EXCEPT !.pc = label]

\* Enter a function at `entry`; it returns to `back`. The last return value has
\* been read by then.
CallTo(s, entry, back) ==
    [s EXCEPT !.pc = entry, !.stack = <<back>> \o @, !.ret = None]

\* Return `value` to the caller; the frame's locals die with it.
Ret(s, value) ==
    [s EXCEPT !.pc = Head(s.stack), !.stack = Tail(@), !.ret = value,
              !.point = None, !.dir = "", !.idx = 0, !.n = 0]

\* An image was loaded.
NoteLoad(o) ==
    [o EXCEPT !.sf.loads = @ \/ o.sf.running, !.cyc.loads = @ \/ o.cyc.running]

\* find_image_on_screen was asked for `image` and answered `point`.
NoteFind(o, image, point) ==
    [o EXCEPT !.sf.finds = @ \/ o.sf.running, !.cyc.finds = @ \/ o.cyc.running,
              !.lastFind = Some([img |-> image, pt |-> point])]

\* click_at_point(at) was called in the step that handles `image`.
NoteClick(o, image, at) ==
    [o EXCEPT !.sf.clicks = @ \/ o.sf.running, !.cyc.clicks = @ \/ o.cyc.running,
              !.sf.first = IF @ = None /\ o.sf.running THEN Some(image) ELSE @,
              !.lastClick = Some([img |-> image, at |-> at, found |-> o.lastFind])]

\* time.sleep was called.
NoteSleep(o) == [o EXCEPT !.sf.sleeps = @ \/ o.sf.running]

\* The existence check skipped: the sequence goes on whatever the file system says.
PathExistsAlways(exists) == TRUE

\* Path(p).exists()
PathExists(exists) == exists

\* A missing match taken for a point.
IsNoneNever(point) == FALSE

\* "point is None"
IsNone(point) == point = None

\* A click that reports success whatever happened.
ClickReportsSuccess(point, raises) == TRUE

\* InputHandler.click_at_point: True, or False when moveTo/doubleClick raised.
click_at_point(point, raises) == ~raises

\* start_farming's failure exits: farming_active = False; return False
SfFail(t, o) ==
    /\ farming_active' = FALSE
    /\ Upd(t, Ret(th[t], Some(FALSE)))
    /\ Rec(t, [o EXCEPT !.sf.result = Some(FALSE), !.sf.running = FALSE])

\* start_farming goes on to its next step.
SfOn(t, s, o) ==
    /\ Upd(t, s)
    /\ Rec(t, o)
    /\ UNCHANGED farming_active

\* start_farming, line 51
SfBegin(t) ==
    /\ th[t].pc = "sf_begin"
    /\ farming_active' = TRUE
    /\ Upd(t, Goto(th[t], "sf_exists"))
    /\ Rec(t, [obs[t] EXCEPT !.sf = SfFresh])
    /\ UNCHANGED <<listeners, f3Done, f2, gap, observe>>
    /\ UNCHANGED notFarm

\* start_farming, lines 55-62
SfExists(t) ==
    /\ th[t].pc = "sf_exists"
    /\ \E exists \in BOOLEAN :
          LET o == [obs[t] EXCEPT !.sf.missing = ~exists,
                                  !.cyc.rest = IF exists \/ ~obs[t].cyc.running THEN @
                                               ELSE "missing"]
          IN  IF ~PathExists(exists)
              THEN SfFail(t, o)
              ELSE SfOn(t, Goto(th[t], "sf_load_rest"), o)
    /\ UNCHANGED <<listeners, f3Done, f2, gap, observe>>
    /\ UNCHANGED notFarm

\* start_farming, lines 67-73 (rest icon) and 103-108 (watch-ads button)
SfLoad(t, at, image, next) ==
    /\ th[t].pc = at
    /\ \E opens \in BOOLEAN :
          IF load_image(image, opens) = None
          THEN SfFail(t, NoteLoad(obs[t]))
          ELSE SfOn(t, Goto(th[t], next), NoteLoad(obs[t]))
    /\ UNCHANGED <<listeners, f3Done, f2, gap, observe>>
    /\ UNCHANGED notFarm

\* start_farming, lines 76-81 (rest icon) and 110-115 (watch-ads button)
SfFind(t, at, image, next) ==
    /\ th[t].pc = at
    /\ \E located \in Located, raised \in BOOLEAN :
          LET point == find_image_on_screen(Some(image), located, raised)
              o == [NoteFind(obs[t], image, point) EXCEPT
                       !.cyc.rest = IF image # rest_icon \/ ~obs[t].cyc.running THEN @
                                    ELSE IF point = None THEN "not_found" ELSE "found"]
          IN  IF IsNone(point)
              THEN SfFail(t, o)
              ELSE SfOn(t, Goto([th[t] EXCEPT !.point = point], next), o)
    /\ UNCHANGED <<listeners, f3Done, f2, gap, observe>>
    /\ UNCHANGED notFarm

\* start_farming, lines 83-91: click the rest icon, then sleep 5 seconds
SfClickRest(t) ==
    /\ th[t].pc = "sf_click_rest"
    /\ \E raises \in BOOLEAN :
          LET o == [NoteClick(obs[t], rest_icon, th[t].point) EXCEPT !.sf.rest = ~raises]
          IN  IF ~click_at_point(th[t].point, raises)
              THEN SfFail(t, o)
              ELSE SfOn(t, Goto([th[t] EXCEPT !.point = None], "sf_wait_watch"),
                        NoteSleep(o))
    /\ UNCHANGED <<listeners, f3Done, f2, gap, observe>>
    /\ UNCHANGED notFarm

\* start_farming, lines 94-101: wait_for_image(watch_ads_path, timeout=30)
SfWaitWatch(t) ==
    /\ th[t].pc = "sf_wait_watch"
    /\ \E located \in Located :
          LET found == located # None
              waited == NoteFind(NoteLoad(obs[t]), watch_ads, located)
              o == IF found THEN waited ELSE NoteSleep(waited)
          IN  IF ~wait_for_image_result(found)
              THEN SfFail(t, o)
              ELSE SfOn(t, Goto(th[t], "sf_load_watch"), o)
    /\ UNCHANGED <<listeners, f3Done, f2, gap, observe>>
    /\ UNCHANGED notFarm

\* start_farming, lines 117-122
SfClickWatch(t) ==
    /\ th[t].pc = "sf_click_watch"
    /\ \E raises \in BOOLEAN :
          LET o == [NoteClick(obs[t], watch_ads, th[t].point) EXCEPT
                       !.sf.watch = ~raises,
                       !.sf.watch_after_rest = obs[t].sf.rest]
          IN  IF ~click_at_point(th[t].point, raises)
              THEN SfFail(t, o)
              ELSE SfOn(t, Goto([th[t] EXCEPT !.point = None], "sf_sleep61"), o)
    /\ UNCHANGED <<listeners, f3Done, f2, gap, observe>>
    /\ UNCHANGED notFarm

\* start_farming, lines 124-126: time.sleep(61)
SfSleep61(t) ==
    /\ th[t].pc = "sf_sleep61"
    /\ Upd(t, Goto(th[t], "sf_skip"))
    /\ Rec(t, NoteSleep([obs[t] EXCEPT !.sf.slept = TRUE,
                                        !.sf.slept_after_watch = obs[t].sf.watch]))
    /\ UNCHANGED <<farming_active, listeners, f3Done, f2, gap, observe>>
    /\ UNCHANGED notFarm

\* start_farming, lines 128-130: the skip directory
SfSkip(t) ==
    /\ th[t].pc = "sf_skip"
    /\ Upd(t, CallTo([th[t] EXCEPT !.dir = "skip"], "it_begin", "sf_after_skip"))
    /\ Rec(t, [obs[t] EXCEPT !.sf.skip = TRUE,
                             !.sf.skip_after_sleep = obs[t].sf.slept])
    /\ UNCHANGED <<farming_active, listeners, f3Done, f2, gap, observe>>
    /\ UNCHANGED notFarm

\* start_farming, lines 133-135 and 143-146: after the skip directory, the close
\* directory, at once when nothing was skipped and after 65 seconds otherwise
SfAfterSkip(t) ==
    /\ th[t].pc = "sf_after_skip"
    /\ LET skip_found == th[t].ret = Some(TRUE)
           s == [th[t] EXCEPT !.dir = "close"]
           o == [obs[t] EXCEPT !.sf.close = TRUE,
                               !.sf.close_after_skip = obs[t].sf.skip]
       IN  IF ~skip_found
           THEN Upd(t, CallTo(s, "it_begin", "sf_after_close")) /\ Rec(t, o)
           ELSE Upd(t, CallTo(s, "it_begin", "sf_done")) /\ Rec(t, NoteSleep(o))
    /\ UNCHANGED <<farming_active, listeners, f3Done, f2, gap, observe>>
    /\ UNCHANGED notFarm

\* start_farming, lines 137-142: a second look at the close directory after 65
\* seconds when the first closed an ad
SfAfterClose(t) ==
    /\ th[t].pc = "sf_after_close"
    /\ LET close_found == th[t].ret = Some(TRUE)
       IN  IF close_found
           THEN /\ Upd(t, CallTo([th[t] EXCEPT !.dir = "close"], "it_begin", "sf_done"))
                /\ Rec(t, NoteSleep(obs[t]))
           ELSE /\ Upd(t, Goto([th[t] EXCEPT !.ret = None], "sf_done"))
                /\ UNCHANGED obs
    /\ UNCHANGED <<farming_active, listeners, f3Done, f2, gap, observe>>
    /\ UNCHANGED notFarm

\* start_farming, lines 149-150
SfDone(t) ==
    /\ th[t].pc = "sf_done"
    /\ Upd(t, Ret(th[t], Some(TRUE)))
    /\ Rec(t, [obs[t] EXCEPT !.sf.result = Some(TRUE), !.sf.running = FALSE])
    /\ UNCHANGED <<farming_active, listeners, f3Done, f2, gap, observe>>
    /\ UNCHANGED notFarm

\* _iterate_through_directory_images, lines 163-183: n is the number of image
\* files found; 0 when the directory is not configured, missing or empty
ItBegin(t) ==
    /\ th[t].pc = "it_begin"
    /\ \E n \in 0..MaxDirImages :
          IF n = 0
          THEN Upd(t, Ret(th[t], Some(FALSE)))
          ELSE Upd(t, Goto([th[t] EXCEPT !.n = n, !.idx = 1], "it_load"))
    /\ UNCHANGED <<farming_active, listeners, f3Done, f2, gap, obs, observe>>
    /\ UNCHANGED notFarm

\* The next file of the loop, or its end (lines 220-221: return False).
ItAdvance(s) ==
    IF s.idx + 1 > s.n THEN Ret(s, Some(FALSE))
    ELSE Goto([s EXCEPT !.idx = @ + 1, !.point = None], "it_load")

\* _iterate_through_directory_images, lines 186-201
ItLoad(t) ==
    /\ th[t].pc = "it_load"
    /\ \E opens \in BOOLEAN :
          IF load_image(Img(th[t].dir, th[t].idx), opens) = None
          THEN Upd(t, ItAdvance(th[t]))
          ELSE Upd(t, Goto(th[t], "it_find"))
    /\ Rec(t, NoteLoad(obs[t]))
    /\ UNCHANGED <<farming_active, listeners, f3Done, f2, gap, observe>>
    /\ UNCHANGED notFarm

\* _iterate_through_directory_images, lines 203-205 and 213-214
ItFind(t) ==
    /\ th[t].pc = "it_find"
    /\ \E located \in Located, raised \in BOOLEAN :
          LET image == Img(th[t].dir, th[t].idx)
              point == find_image_on_screen(Some(image), located, raised)
          IN  /\ IF ~IsNone(point)
                 THEN Upd(t, Goto([th[t] EXCEPT !.point = point], "it_click"))
                 ELSE Upd(t, ItAdvance(th[t]))
              /\ Rec(t, NoteFind(obs[t], image, point))
    /\ UNCHANGED <<farming_active, listeners, f3Done, f2, gap, observe>>
    /\ UNCHANGED notFarm

\* _iterate_through_directory_images, lines 206-212
ItClick(t) ==
    /\ th[t].pc = "it_click"
    /\ \E raises \in BOOLEAN :
          LET o == NoteClick(obs[t], Img(th[t].dir, th[t].idx), th[t].point)
          IN  IF click_at_point(th[t].point, raises)
              THEN Upd(t, Ret(th[t], Some(TRUE))) /\ Rec(t, NoteSleep(o))
              ELSE Upd(t, ItAdvance(th[t])) /\ Rec(t, o)
    /\ UNCHANGED <<farming_active, listeners, f3Done, f2, gap, observe>>
    /\ UNCHANGED notFarm

\* stop_farming, line 225
StopFarming(t) ==
    /\ th[t].pc = "stop_farming"
    /\ farming_active' = FALSE
    /\ Upd(t, Ret(th[t], None))
    /\ UNCHANGED <<listeners, f3Done, f2, gap, obs, observe>>
    /\ UNCHANGED notFarm

\* The steps of start_farming and of what it calls, run by thread t.
StartFarmingSteps(t) ==
    \/ SfBegin(t)
    \/ SfExists(t)
    \/ SfLoad(t, "sf_load_rest", rest_icon, "sf_find_rest")
    \/ SfFind(t, "sf_find_rest", rest_icon, "sf_click_rest")
    \/ SfClickRest(t)
    \/ SfWaitWatch(t)
    \/ SfLoad(t, "sf_load_watch", watch_ads, "sf_find_watch")
    \/ SfFind(t, "sf_find_watch", watch_ads, "sf_click_watch")
    \/ SfClickWatch(t)
    \/ SfSleep61(t)
    \/ SfSkip(t)
    \/ SfAfterSkip(t)
    \/ SfAfterClose(t)
    \/ SfDone(t)
    \/ ItBegin(t)
    \/ ItLoad(t)
    \/ ItFind(t)
    \/ ItClick(t)
    \/ StopFarming(t)

\* A method called on its own, from an idle thread.
Command(t, entry) ==
    /\ th[t].pc = "idle"
    /\ Upd(t, CallTo(th[t], entry, "idle"))
    /\ UNCHANGED <<farming_active, listeners, f3Done, f2, gap, obs, observe>>
    /\ UNCHANGED notFarm

\* find_and_click_pattern, lines 239-253: n is the number of files of the
\* directory that match one of the pattern's globs
FcpBegin(t) ==
    /\ th[t].pc = "fcp_begin"
    /\ \E n \in 0..MaxDirImages :
          IF n = 0
          THEN Upd(t, Ret(th[t], Some(FALSE)))
          ELSE Upd(t, Goto([th[t] EXCEPT !.n = n, !.idx = 1], "fcp_load"))
    /\ UNCHANGED <<farming_active, listeners, f3Done, f2, gap, obs, observe>>
    /\ UNCHANGED notFarm

\* The next matching file, or the end of the loops (line 270: return False).
FcpAdvance(s) ==
    IF s.idx + 1 > s.n THEN Ret(s, Some(FALSE))
    ELSE Goto([s EXCEPT !.idx = @ + 1, !.point = None], "fcp_load")

\* find_and_click_pattern, lines 254-263
FcpLoad(t) ==
    /\ th[t].pc = "fcp_load"
    /\ \E opens \in BOOLEAN :
          IF load_image(Img(th[t].dir, th[t].idx), opens) = None
          THEN Upd(t, FcpAdvance(th[t]))
          ELSE Upd(t, Goto(th[t], "fcp_find"))
    /\ Rec(t, NoteLoad(obs[t]))
    /\ UNCHANGED <<farming_active, listeners, f3Done, f2, gap, observe>>
    /\ UNCHANGED notFarm

\* find_and_click_pattern, lines 265-266
FcpFind(t) ==
    /\ th[t].pc = "fcp_find"
    /\ \E located \in Located, raised \in BOOLEAN :
          LET image == Img(th[t].dir, th[t].idx)
              point == find_image_on_screen(Some(image), located, raised)
          IN  /\ IF ~IsNone(point)
                 THEN Upd(t, Goto([th[t] EXCEPT !.point = point], "fcp_click"))
                 ELSE Upd(t, FcpAdvance(th[t]))
              /\ Rec(t, NoteFind(obs[t], image, point))
    /\ UNCHANGED <<farming_active, listeners, f3Done, f2, gap, observe>>
    /\ UNCHANGED notFarm

\* find_and_click_pattern, lines 267-268: return click_at_point(point)
FcpClick(t) ==
    /\ th[t].pc = "fcp_click"
    /\ \E raises \in BOOLEAN :
          Upd(t, Ret(th[t], Some(click_at_point(th[t].point, raises))))
    /\ Rec(t, NoteClick(obs[t], Img(th[t].dir, th[t].idx), th[t].point))
    /\ UNCHANGED <<farming_active, listeners, f3Done, f2, gap, observe>>
    /\ UNCHANGED notFarm

\* skip_and_close_ads, lines 279-282
ScaBegin(t) ==
    /\ th[t].pc = "sca_begin"
    /\ Upd(t, CallTo([th[t] EXCEPT !.ads_handled = FALSE, !.dir = "skip"],
                     "fcp_begin", "sca_after_skip"))
    /\ UNCHANGED <<farming_active, listeners, f3Done, f2, gap, obs, observe>>
    /\ UNCHANGED notFarm

\* skip_and_close_ads, lines 282-288 and 288-294: note a handled ad, then look
\* in the close directory
ScaAfter(t, at, next) ==
    /\ th[t].pc = at
    /\ LET s == [th[t] EXCEPT !.ads_handled = @ \/ (th[t].ret = Some(TRUE)),
                              !.dir = "close"]
       IN  Upd(t, CallTo(s, "fcp_begin", next))
    /\ UNCHANGED <<farming_active, listeners, f3Done, f2, gap, obs, observe>>
    /\ UNCHANGED notFarm

\* skip_and_close_ads, lines 294-299
ScaDone(t) ==
    /\ th[t].pc = "sca_done"
    /\ LET ads_handled == th[t].ads_handled \/ (th[t].ret = Some(TRUE))
       IN  Upd(t, Ret([th[t] EXCEPT !.ads_handled = FALSE], Some(ads_handled)))
    /\ UNCHANGED <<farming_active, listeners, f3Done, f2, gap, obs, observe>>
    /\ UNCHANGED notFarm

\* run_farming_cycle, lines 334-348
RfcBegin(t) ==
    /\ th[t].pc = "rfc_begin"
    /\ LET o == [obs[t] EXCEPT !.cyc = [CycFresh EXCEPT !.active = farming_active]]
       IN  IF ~farming_active
           THEN /\ Upd(t, Ret(th[t], None))
                /\ Rec(t, [o EXCEPT !.cyc.result = "empty", !.cyc.running = FALSE])
           ELSE /\ Upd(t, CallTo(th[t], "sca_begin", "rfc_start"))
                /\ Rec(t, o)
    /\ UNCHANGED <<farming_active, listeners, f3Done, f2, gap, observe>>
    /\ UNCHANGED notFarm

\* run_farming_cycle, lines 348-354
RfcStart(t) ==
    /\ th[t].pc = "rfc_start"
    /\ Upd(t, CallTo(th[t], "sf_begin", "rfc_after"))
    /\ UNCHANGED <<farming_active, listeners, f3Done, f2, gap, obs, observe>>
    /\ UNCHANGED notFarm

\* run_farming_cycle, lines 355-364: the non-empty results dictionary
RfcAfter(t) ==
    /\ th[t].pc = "rfc_after"
    /\ Upd(t, Ret(th[t], Some([sequence_completed |-> th[t].ret = Some(TRUE)])))
    /\ Rec(t, [obs[t] EXCEPT !.cyc.result = "done", !.cyc.running = FALSE])
    /\ UNCHANGED <<farming_active, listeners, f3Done, f2, gap, observe>>
    /\ UNCHANGED notFarm

\* The steps of run_farming_cycle and of what it calls, run by thread t.
CycleSteps(t) ==
    \/ RfcBegin(t)
    \/ ScaBegin(t)
    \/ ScaAfter(t, "sca_after_skip", "sca_after_close")
    \/ ScaAfter(t, "sca_after_close", "sca_done")
    \/ ScaDone(t)
    \/ FcpBegin(t)
    \/ FcpLoad(t)
    \/ FcpFind(t)
    \/ FcpClick(t)
    \/ RfcStart(t)
    \/ RfcAfter(t)
    \/ StartFarmingSteps(t)

\* ------------------------------------------------------- the launch sequence

\* BlueStacksBot.assets_paths
start_icon_dark == Img("start_icon_dark_mode.png", 0)
start_icon_light == Img("start_icon_light_mode.png", 0)
bluestacks_home == Img("BlueStack_homeButton.png", 0)
top_eleven == Img("top_eleven.png", 0)

\* point = find_image_on_screen(load_image(image)); "if point:" goes on to the
\* click, anything else leaves the thread as `missed`.
LookFor(t, image, click, missed) ==
    \E opens \in BOOLEAN, located \in Located, raised \in BOOLEAN :
        LET point == find_image_on_screen(load_image(image, opens), located, raised)
        IN  /\ IF PointTruthy(point)
               THEN Upd(t, Goto([th[t] EXCEPT !.point = point], click))
               ELSE Upd(t, missed)
            /\ Rec(t, NoteFind(NoteLoad(obs[t]), image, point))

\* A launch step that reported success all the same.
StepFailedNever(ret) == FALSE

\* "if not self._step():" on the step's return value
StepFailed(ret) == ret # Some(TRUE)

\* open_top_eleven_app, lines 44-46: step 1 is called
OteBegin(t) ==
    /\ th[t].pc = "ote_begin"
    /\ Upd(t, CallTo([th[t] EXCEPT !.clicked_start = FALSE], "osm_dark", "ote_after1"))
    /\ Rec(t, [obs[t] EXCEPT !.steps = <<"osm_dark">>, !.reports = <<>>,
                             !.launched = None])
    /\ UNCHANGED <<farming_active, listeners, f3Done, f2, gap, observe>>
    /\ UNCHANGED notFarm

\* open_top_eleven_app, lines 45-62: step k - 1 has returned; False ends the
\* launch, True calls step k
OteAfter(t, at, k, entry, next) ==
    /\ th[t].pc = at
    /\ LET o == [obs[t] EXCEPT !.reports = Append(@, th[t].ret = Some(TRUE))]
       IN  IF StepFailed(th[t].ret)
           THEN /\ Upd(t, Ret(th[t], Some(FALSE)))
                /\ Rec(t, [o EXCEPT !.launched = Some(FALSE)])
           ELSE /\ Upd(t, CallTo(th[t], entry, next))
                /\ Rec(t, [o EXCEPT !.steps = Append(@, entry)])
    /\ UNCHANGED <<farming_active, listeners, f3Done, f2, gap, observe>>
    /\ UNCHANGED notFarm

\* open_top_eleven_app, lines 61-65: step 5 has returned
OteDone(t) ==
    /\ th[t].pc = "ote_after5"
    /\ LET ok == ~StepFailed(th[t].ret)
       IN  /\ Upd(t, Ret(th[t], Some(ok)))
           /\ Rec(t, [obs[t] EXCEPT !.reports = Append(@, th[t].ret = Some(TRUE)),
                                    !.launched = Some(ok)])
    /\ UNCHANGED <<farming_active, listeners, f3Done, f2, gap, observe>>
    /\ UNCHANGED notFarm

\* _open_windows_start_menu, lines 83-87: the dark-mode icon
OsmDark(t) ==
    /\ th[t].pc = "osm_dark"
    /\ LookFor(t, start_icon_dark, "osm_click_dark", Goto(th[t], "osm_light"))
    /\ UNCHANGED <<farming_active, listeners, f3Done, f2, gap, observe>>
    /\ UNCHANGED notFarm

\* _open_windows_start_menu, lines 92-96 and 101-103: the light-mode icon, looked
\* for when the dark one was not clicked
OsmLight(t) ==
    /\ th[t].pc = "osm_light"
    /\ ~th[t].clicked_start
    /\ LookFor(t, start_icon_light, "osm_click_light", Ret(th[t], Some(FALSE)))
    /\ UNCHANGED <<farming_active, listeners, f3Done, f2, gap, observe>>
    /\ UNCHANGED notFarm

\* _open_windows_start_menu, lines 88-89 or 97-98, then 101-107: the click, whose
\* result is not read; clicked_start = True; sleep 1 second; return True
OsmClick(t, at, image) ==
    /\ th[t].pc = at
    /\ LET clicked_start == TRUE
       IN  Upd(t, Ret([th[t] EXCEPT !.clicked_start = FALSE], Some(clicked_start)))
    /\ Rec(t, NoteSleep(NoteClick(obs[t], image, th[t].point)))
    /\ UNCHANGED <<farming_active, listeners, f3Done, f2, gap, observe>>
    /\ UNCHANGED notFarm

\* _launch_bluestacks, lines 115-129: type the name, sleep 2 seconds, press
\* Enter; key_boardtype's result is not read
LaunchBluestacks(t) ==
    /\ th[t].pc = "lb"
    /\ Upd(t, Ret(th[t], Some(TRUE)))
    /\ Rec(t, NoteSleep(obs[t]))
    /\ UNCHANGED <<farming_active, listeners, f3Done, f2, gap, observe>>
    /\ UNCHANGED notFarm

\* _wait_for_bluestacks_ready, line 139: wait_for_bluestacks_ready(60)
WaitForBluestacksReady(t) ==
    /\ th[t].pc = "wbr"
    /\ \E exists \in BOOLEAN, found \in BOOLEAN :
          Upd(t, Ret(th[t], Some(IF StrTruthy(bluestacks_window_pattern) /\ ~exists
                                 THEN TRUE
                                 ELSE wait_for_bluestacks_ready_result(found))))
    /\ Rec(t, NoteSleep(obs[t]))
    /\ UNCHANGED <<farming_active, listeners, f3Done, f2, gap, observe>>
    /\ UNCHANGED notFarm

\* _navigate_to_bluestacks_home, lines 151-157, and _launch_top_eleven, lines
\* 184-193 (after its 5 seconds of sleep): the image file must exist
LaunchExists(t, at, next) ==
    /\ th[t].pc = at
    /\ \E exists \in BOOLEAN :
          IF ~PathExists(exists)
          THEN Upd(t, Ret(th[t], Some(FALSE)))
          ELSE Upd(t, Goto(th[t], next))
    /\ UNCHANGED <<farming_active, listeners, f3Done, f2, gap, obs, observe>>
    /\ UNCHANGED notFarm

\* _navigate_to_bluestacks_home, lines 159-163 and 168-171: a home button that
\* is not on screen is no failure
NavFind(t) ==
    /\ th[t].pc = "nav_find"
    /\ LookFor(t, bluestacks_home, "nav_click", Ret(th[t], Some(TRUE)))
    /\ UNCHANGED <<farming_active, listeners, f3Done, f2, gap, observe>>
    /\ UNCHANGED notFarm

\* _launch_top_eleven, lines 196-199 and 204-206
LteFind(t) ==
    /\ th[t].pc = "lte_find"
    /\ LookFor(t, top_eleven, "lte_click", Ret(th[t], Some(FALSE)))
    /\ UNCHANGED <<farming_active, listeners, f3Done, f2, gap, observe>>
    /\ UNCHANGED notFarm

\* _navigate_to_bluestacks_home, lines 164-167, and _launch_top_eleven, lines
\* 200-203: the click, whose result is not read; sleep; return True
LaunchClick(t, at, image) ==
    /\ th[t].pc = at
    /\ Upd(t, Ret(th[t], Some(TRUE)))
    /\ Rec(t, NoteSleep(NoteClick(obs[t], image, th[t].point)))
    /\ UNCHANGED <<farming_active, listeners, f3Done, f2, gap, observe>>
    /\ UNCHANGED notFarm

\* The steps of open_top_eleven_app and of what it calls, run by thread t.
LaunchSteps(t) ==
    \/ OteBegin(t)
    \/ OteAfter(t, "ote_after1", 2, "lb", "ote_after2")
    \/ OteAfter(t, "ote_after2", 3, "wbr", "ote_after3")
    \/ OteAfter(t, "ote_after3", 4, "nav_exists", "ote_after4")
    \/ OteAfter(t, "ote_after4", 5, "lte_exists", "ote_after5")
    \/ OteDone(t)
    \/ OsmDark(t)
    \/ OsmLight(t)
    \/ OsmClick(t, "osm_click_dark", start_icon_dark)
    \/ OsmClick(t, "osm_click_light", start_icon_light)
    \/ LaunchBluestacks(t)
    \/ WaitForBluestacksReady(t)
    \/ LaunchExists(t, "nav_exists", "nav_find")
    \/ NavFind(t)
    \/ LaunchClick(t, "nav_click", bluestacks_home)
    \/ LaunchExists(t, "lte_exists", "lte_find")
    \/ LteFind(t)
    \/ LaunchClick(t, "lte_click", top_eleven)

\* green_count = 25
GreenCountStart == 25

\* for x in range(0, 5)
FarmRounds == 5

\* continuous_farming, lines 373-376
CfBegin(t) ==
    /\ th[t].pc = "cf_begin"
    /\ Upd(t, Goto([th[t] EXCEPT !.green_count = GreenCountStart], "cf_while"))
    /\ gap' = GapFresh
    /\ UNCHANGED <<farming_active, listeners, f3Done, f2, obs, observe>>
    /\ UNCHANGED notFarm

\* "if results:" of a dict: the empty dictionary (None here) is falsy.
DictTruthy(results) == results # None

\* continuous_farming, lines 377-379 and 398: the while test
CfWhile(t) ==
    /\ th[t].pc = "cf_while"
    /\ th[t].green_count < GreenCountStart + MaxCycles
    /\ IF farming_active /\ th[t].green_count > 0
       THEN /\ Upd(t, CallTo(th[t], "rfc_begin", "cf_after"))
            /\ UNCHANGED gap
       ELSE /\ Upd(t, Ret([th[t] EXCEPT !.green_count = 0], None))
            /\ gap' = GapFresh
    /\ UNCHANGED <<farming_active, listeners, f3Done, f2, obs, observe>>
    /\ UNCHANGED notFarm

\* The history after a run_farming_cycle call and the test of farming_active
\* at line 390: a call that returned the empty dictionary was no cycle; a cycle
\* that ends with no sleep since the end of the cycle before is flagged.
CycleEnded(before, ran, active) ==
    [unslept |-> before.unslept \/ ran,
     saw |-> active,
     flag |-> IF ran /\ before.unslept THEN "no_sleep" ELSE before.flag]

\* The history after time.sleep(cycle_interval): a sleep after farming_active
\* was seen false is flagged.
Slept(before) ==
    [unslept |-> FALSE,
     saw |-> before.saw,
     flag |-> IF ~before.saw THEN "slept_off" ELSE before.flag]

\* continuous_farming, lines 381-390: count the cycle, test farming_active again
CfAfter(t) ==
    /\ th[t].pc = "cf_after"
    /\ LET results == th[t].ret
           s == [th[t] EXCEPT !.green_count = IF DictTruthy(results) THEN @ + 1 ELSE @,
                              !.ret = None]
       IN  IF farming_active
           THEN Upd(t, Goto(s, "cf_sleep"))
           ELSE Upd(t, Goto(s, "cf_while"))
    /\ gap' = CycleEnded(gap, DictTruthy(th[t].ret), farming_active)
    /\ UNCHANGED <<farming_active, listeners, f3Done, f2, obs, observe>>
    /\ UNCHANGED notFarm

\* continuous_farming, lines 391-392: time.sleep(cycle_interval)
CfSleep(t) ==
    /\ th[t].pc = "cf_sleep"
    /\ Upd(t, Goto(th[t], "cf_while"))
    /\ gap' = Slept(gap)
    /\ UNCHANGED <<farming_active, listeners, f3Done, f2, obs, observe>>
    /\ UNCHANGED notFarm

\* start_resource_farming, lines 129-131: setup_key_handler starts the listener
SrfBegin(t) ==
    /\ th[t].pc = "srf_begin"
    /\ listeners < MaxListeners
    /\ listeners' = listeners + 1
    /\ Upd(t, Goto([th[t] EXCEPT !.x = 0], "srf_loop"))
    /\ UNCHANGED <<farming_active, f3Done, f2, gap, obs, observe>>
    /\ UNCHANGED notFarm

\* start_resource_farming, lines 132-134: five calls of continuous_farming
SrfLoop(t) ==
    /\ th[t].pc = "srf_loop"
    /\ IF th[t].x < FarmRounds
       THEN Upd(t, CallTo([th[t] EXCEPT !.x = @ + 1], "cf_begin", "srf_loop"))
       ELSE Upd(t, Ret([th[t] EXCEPT !.x = 0], None))
    /\ UNCHANGED <<farming_active, listeners, f3Done, f2, gap, obs, observe>>
    /\ UNCHANGED notFarm

\* The steps of the Farm command, run by thread t.
FarmSteps(t) ==
    \/ SrfBegin(t)
    \/ SrfLoop(t)
    \/ CfBegin(t)
    \/ CfWhile(t)
    \/ CfAfter(t)
    \/ CfSleep(t)
    \/ CycleSteps(t)

\* The thread is inside continuous_farming: it will return into
\* start_resource_farming's loop.
InContinuousFarming(s) ==
    \E i \in 1..Len(s.stack) : s.stack[i] = "srf_loop"

\* on_key_press, lines 57-58, and toggle_farming: F2 stops an active farmer and
\* runs start_farming, on the listener's thread, otherwise
KeyF2 ==
    /\ listeners > 0
    /\ th["listener"].pc = "idle"
    /\ IF farming_active
       THEN Upd("listener", CallTo(th["listener"], "stop_farming", "idle"))
       ELSE Upd("listener", CallTo(th["listener"], "sf_begin", "idle"))
    /\ f3Done' = FALSE
    /\ f2' = IF farming_active
             THEN IF InContinuousFarming(th["worker"]) THEN "paused" ELSE "none"
             ELSE IF f2 = "paused" THEN "resumed" ELSE "none"
    /\ UNCHANGED <<farming_active, listeners, gap, obs, observe>>
    /\ UNCHANGED notFarm

\* on_key_press, lines 59-61, and stop_resource_farming: F3 runs stop_farming
KeyF3 ==
    /\ listeners > 0
    /\ th["listener"].pc = "idle"
    /\ farming_active' = FALSE
    /\ f3Done' = InContinuousFarming(th["worker"])
    /\ f2' = "none"
    /\ UNCHANGED <<th, listeners, gap, obs, observe>>
    /\ UNCHANGED notFarm

\* The Farm button, pressed once.
FarmCommand ==
    /\ listeners = 0
    /\ Command("worker", "srf_begin")

F3Next ==
    \/ FarmCommand
    \/ FarmSteps("worker")
    \/ KeyF2
    \/ KeyF3
    \/ StartFarmingSteps("listener")

InitF3 == YoloIdle /\ WaitIdle /\ FarmInit(FALSE)

SpecF3 == InitF3 /\ [][F3Next]_vars

\* One thread that calls the farmer's and the launcher's methods one after the
\* other.
SeqNext ==
    \/ Command("worker", "sf_begin")
    \/ Command("worker", "stop_farming")
    \/ Command("worker", "rfc_begin")
    \/ Command("worker", "ote_begin")
    \/ CycleSteps("worker")
    \/ LaunchSteps("worker")

InitSeq == YoloIdle /\ WaitIdle /\ FarmInit(TRUE)

SpecSeq == InitSeq /\ [][SeqNext]_vars

\* The threads execute_threaded has started: one per button pressed.
GuiThreads == {"worker", "worker2"}

\* launch_top_eleven, lines 113-116: open_top_eleven_app is called
LtBegin(t) ==
    /\ th[t].pc = "lt_begin"
    /\ Upd(t, CallTo(th[t], "ote_begin", "lt_after"))
    /\ UNCHANGED <<farming_active, listeners, f3Done, f2, gap, obs, observe>>
    /\ UNCHANGED notFarm

\* launch_top_eleven, lines 117-120: "result and wait_for_bluestacks_ready(120)",
\* 5 seconds of sleep on True
LtAfter(t) ==
    /\ th[t].pc = "lt_after"
    /\ \E found \in BOOLEAN :
          LET result == th[t].ret = Some(TRUE)
          IN  Upd(t, Ret(th[t], Some(result /\ wait_for_bluestacks_ready_result(found))))
    /\ UNCHANGED <<farming_active, listeners, f3Done, f2, gap, obs, observe>>
    /\ UNCHANGED notFarm

\* A button is pressed: execute_threaded starts a thread that runs the command,
\* whatever the threads started before are doing.
GuiCommand(t) ==
    \E entry \in {"lt_begin", "srf_begin"} : Command(t, entry)

\* The Launch and Farm buttons, pressed in any order and at any time; no key is
\* pressed, so farming_active stays false and continuous_farming returns at
\* its first test.
GuiNext ==
    \E t \in GuiThreads :
        \/ GuiCommand(t)
        \/ LtBegin(t)
        \/ LtAfter(t)
        \/ LaunchSteps(t)
        \/ SrfBegin(t)
        \/ SrfLoop(t)
        \/ CfBegin(t)
        \/ CfWhile(t)

InitGui == YoloIdle /\ WaitIdle /\ FarmInit(FALSE)

SpecGui == InitGui /\ [][GuiNext]_vars

YoloNext ==
    \/ \E target_classes \in SUBSET AskedNames : FindBestMatch(target_classes)
    \/ \E class_name \in AskedNames : FindClassOnScreen(class_name)

InitYolo == YoloInit /\ WaitIdle /\ FarmInit(FALSE)

SpecYolo == InitYolo /\ [][YoloNext]_vars

WaitNext ==
    \/ WaitClassStart
    \/ WaitClassCheck
    \/ WaitClassTimeout
    \/ WaitImageStart
    \/ WaitImageCheck
    \/ WaitImageTimeout
    \/ WaitReadyStart
    \/ WaitReadyCheck
    \/ WaitReadyTimeout

InitWait == YoloIdle /\ WaitInit /\ FarmInit(FALSE)

SpecWait == InitWait /\ [][WaitNext]_vars

\* ------------------------------------------------- claims on the YOLO wrapper

\* The detections the screenshot yielded: none when detection raised.
Screen == IF yErr THEN <<>> ELSE yDets

\* The detections of the screenshot whose class is one of `names`.
OfClasses(names) ==
    {i \in 1..Len(Screen) : ClassNameOf(Screen[i].class_id) \in names}

\* yRes is a detection among cands that no detection of cands beats.
IsBestOf(cands) ==
    /\ yRes # None
    /\ \E i \in cands :
          /\ yRes[1].class_name = ClassNameOf(Screen[i].class_id)
          /\ yRes[1].confidence = Screen[i].confidence
          /\ yRes[1].bbox = Screen[i].bbox
          /\ \A j \in cands : Screen[j].confidence <= Screen[i].confidence

\* C1 as stated: find_best_match(target_classes) returns a detection whose class
\* is in target_classes and whose confidence no other such detection exceeds,
\* and returns None exactly when no detection has a class in target_classes.
C1_AsStated ==
    yOp = "find_best_match" =>
        /\ (yRes = None) <=> (OfClasses(yArg) = {})
        /\ yRes # None => IsBestOf(OfClasses(yArg))

\* The detections find_best_match chooses among: those of a class in
\* target_classes, or all of them when target_classes is empty.
C1_Candidates ==
    IF yArg = {} THEN 1..Len(Screen) ELSE OfClasses(yArg)

\* C1 amended: with a non-empty target_classes the claim holds as stated; with
\* an empty target_classes no class filter applies, the result is a detection
\* of the screenshot that no other detection beats, and it is None exactly
\* when the screenshot has no detection at all.
C1_BestMatch ==
    yOp = "find_best_match" =>
        /\ (yRes = None) <=> (C1_Candidates = {})
        /\ yRes # None => IsBestOf(C1_Candidates)

\* C1's case: two detections of asked classes, the second the more confident,
\* and the second is the one returned.
C1_Witness ==
    /\ yOp = "find_best_match"
    /\ yArg # {}
    /\ ~yErr
    /\ Len(yDets) = 2
    /\ OfClasses(yArg) = {1, 2}
    /\ yDets[1].confidence < yDets[2].confidence
    /\ yRes # None
    /\ yRes[1].confidence = yDets[2].confidence

\* <<cx, cy>> is the integer midpoint of bbox: the midpoint rounded down.
IsCenterOf(pt, bbox) ==
    /\ 2 * pt[1] <= bbox[1] + bbox[3]
    /\ bbox[1] + bbox[3] < 2 * pt[1] + 2
    /\ 2 * pt[2] <= bbox[2] + bbox[4]
    /\ bbox[2] + bbox[4] < 2 * pt[2] + 2

\* C2: find_class_on_screen(class_name) returns the integer midpoint of the
\* bounding box of a highest-confidence detection of exactly class_name, and
\* None when there is no detection of that class or detection raised; the point
\* is never taken from a detection of another class.
C2_ClassPoint ==
    yOp = "find_class_on_screen" =>
        LET cands == OfClasses({yArg})
        IN  /\ (yRes = None) <=> (cands = {})
            /\ yErr => yRes = None
            /\ yRes # None =>
                  \E i \in cands :
                      /\ \A j \in cands : Screen[j].confidence <= Screen[i].confidence
                      /\ IsCenterOf(yRes[1], Screen[i].bbox)

\* C2's case: a detection of the asked class is returned although a detection
\* of another class, in another box, is more confident.
C2_Witness ==
    /\ yOp = "find_class_on_screen"
    /\ ~yErr
    /\ Len(yDets) = 2
    /\ ClassNameOf(yDets[1].class_id) # yArg
    /\ ClassNameOf(yDets[2].class_id) = yArg
    /\ yDets[1].confidence > yDets[2].confidence
    /\ yDets[1].bbox # yDets[2].bbox
    /\ yRes # None
    /\ IsCenterOf(yRes[1], yDets[2].bbox)

\* ------------------------------------------------------ claims on the waits

\* C7: wait_for_class returns True if and only if some check made before the
\* timeout elapsed had class_name on screen, and False only once the timeout
\* has elapsed with no check having had it.
C7_WaitForClass ==
    (wFn = "wait_for_class" /\ wPc = "done") =>
        /\ wRes \in {Some(TRUE), Some(FALSE)}
        /\ (wRes = Some(TRUE)) <=> wSeen
        /\ wRes = Some(FALSE) => wElapsed >= wTimeout

\* C7's case: the class shows up at the third check, still inside the timeout.
C7_Witness ==
    /\ wFn = "wait_for_class" /\ wPc = "done"
    /\ wChecks = 3
    /\ wElapsed < wTimeout
    /\ wSeen
    /\ wRes = Some(TRUE)

\* C6 as stated: wait_for_image returns True if the image was found before the
\* timeout elapsed and False if the timeout elapsed without it being found.
C6_AsStated ==
    (wFn = "wait_for_image" /\ wPc = "done") =>
        /\ wSeen => wRes = Some(TRUE)
        /\ ~wSeen => wRes = Some(FALSE)

\* C8 as stated: wait_for_bluestacks_ready returns True if the window image was
\* detected within the timeout and False if the timeout elapsed without it.
C8_AsStated ==
    (wFn = "wait_for_bluestacks_ready" /\ wPc = "done") =>
        /\ wSeen => wRes = Some(TRUE)
        /\ (~wSeen /\ wElapsed >= wTimeout) => wRes = Some(FALSE)

\* ------------------------------------------- claims on farming and launching

\* C3: in start_farming, _iterate_through_directory_images,
\* find_and_click_pattern and the launch steps of open_top_eleven_app, every
\* click is issued at a point, never at None, and that point is the one the
\* latest find_image_on_screen returned, which searched the image the click is
\* for; a search that returned None is followed by no click for its image.
C3_ClicksWhereFound ==
    \A t \in Threads :
        obs[t].lastClick # None =>
            LET c == obs[t].lastClick[1]
            IN  /\ c.at # None
                /\ c.found = Some([img |-> c.img, pt |-> c.at])

\* C3's case: the second image of the skip directory was found away from the
\* origin and clicked there.
C3_Witness ==
    /\ obs["worker"].lastClick # None
    /\ obs["worker"].lastClick[1].img = Img("skip", 2)
    /\ obs["worker"].lastClick[1].at = Some(<<40, 30>>)

\* C4: within one start_farming the first click is the one on the rest icon,
\* the watch-ads button is clicked only after a rest-icon click that succeeded,
\* the 61-second sleep comes only after a watch-ads click that succeeded, the
\* skip directory is tried only after that sleep and the close directory only
\* after the skip directory.
C4_StepOrder ==
    \A t \in Threads :
        LET f == obs[t].sf
        IN  /\ f.first \in {None, Some(rest_icon)}
            /\ f.watch_after_rest
            /\ f.slept_after_watch
            /\ f.skip_after_sleep
            /\ f.close_after_skip

\* C4's case: a start_farming that went through all its steps and returned True.
C4_Witness ==
    LET f == obs["worker"].sf
    IN  /\ f.first = Some(rest_icon)
        /\ f.rest /\ f.watch /\ f.slept /\ f.skip /\ f.close
        /\ f.result = Some(TRUE)

\* C5: a start_farming that found the rest icon's file missing has returned
\* False, has left farming_active false and has loaded no image, searched the
\* screen for nothing, clicked nothing and slept not at all.
C5_MissingRestIcon ==
    \A t \in Threads :
        LET f == obs[t].sf
        IN  f.missing =>
                /\ f.result = Some(FALSE)
                /\ ~farming_active
                /\ ~f.loads /\ ~f.finds /\ ~f.clicks /\ ~f.sleeps

\* C5's case: start_farming, called inside a farming cycle that had set
\* farming_active, ended on the missing file.
C5_Witness ==
    /\ obs["worker"].sf.missing
    /\ obs["worker"].sf.result = Some(FALSE)
    /\ obs["worker"].cyc.running

\* C9 as stated: a farming cycle in which the rest icon's file is missing or the
\* icon is not detected issues no click, and a cycle entered with farming_active
\* false returns the empty result without a detection or a click.
C9_AsStated ==
    \A t \in Threads :
        LET c == obs[t].cyc
        IN  /\ c.rest \in {"missing", "not_found"} => ~c.clicks
            /\ ~c.active => c.result = "empty" /\ ~c.finds /\ ~c.clicks

\* C10 as stated: once F3's stop_farming has run while continuous_farming was
\* running on the worker thread, farming_active stays false (until F2 is
\* pressed).
C10_AsStated == f3Done => ~farming_active

\* The thread is running a command: it has not returned from it.
InCommand(s) == s.pc # "idle"

\* C11 as stated: after F2 paused the farming of the Farm command and a second
\* F2 press made farming_active true again, the Farm command is still running,
\* so that its continuous farming can go on with farming cycles.
C11_AsStated ==
    (f2 = "resumed" /\ farming_active) => InCommand(th["worker"])

\* C12 as stated: whatever Farm commands have been given, at most one keyboard
\* listener is running, so that a key press reaches one on_key_press only.
C12_AsStated == listeners <= 1

\* The five launch steps by the first statement of each: _open_windows_start_menu,
\* _launch_bluestacks, _wait_for_bluestacks_ready, _navigate_to_bluestacks_home
\* and _launch_top_eleven.
LaunchOrder == <<"osm_dark", "lb", "wbr", "nav_exists", "lte_exists">>

\* C13: the steps open_top_eleven_app has called are the first ones of the fixed
\* order start menu, launch BlueStacks, wait for BlueStacks, navigate home,
\* launch Top Eleven; a step is called only after every step before it reported
\* success; a step that reports failure ends the launch with False at once, and
\* True is returned only after all five steps reported success.
C13_LaunchOrder ==
    \A t \in Threads :
        LET steps == obs[t].steps
            reports == obs[t].reports
            n == Len(steps)
        IN  /\ n <= Len(LaunchOrder)
            /\ steps = SubSeq(LaunchOrder, 1, n)
            /\ Len(reports) \in {n - 1, n} \ {-1}
            /\ \A i \in 1..(n - 1) : reports[i]
            /\ (\E i \in 1..Len(reports) : ~reports[i]) <=> obs[t].launched = Some(FALSE)
            /\ obs[t].launched = Some(TRUE) =>
                    /\ n = Len(LaunchOrder)
                    /\ Len(reports) = n
                    /\ \A i \in 1..n : reports[i]

\* C13's case: the first three steps reported success, the fourth (navigate
\* home) reported failure, and the launch returned False without the fifth.
C13_Witness ==
    /\ obs["worker"].steps = SubSeq(LaunchOrder, 1, 4)
    /\ obs["worker"].reports = <<TRUE, TRUE, TRUE, FALSE>>
    /\ obs["worker"].launched = Some(FALSE)
    /\ th["worker"].pc = "idle"

\* C13's other case: all five steps reported success and the launch returned
\* True.
C13_Launched ==
    /\ obs["worker"].steps = LaunchOrder
    /\ obs["worker"].launched = Some(TRUE)

\* C14 as stated: within one continuous_farming, a farming cycle that follows
\* another was preceded by a sleep of cycle_interval seconds since that one
\* ended, and no such sleep is taken after a cycle at whose end farming_active
\* was seen false.
C14_AsStated == gap.flag = "ok"

\* C15 as stated: at most one command started from the GUI is executing.
C15_AsStated == ~(InCommand(th["worker"]) /\ InCommand(th["worker2"]))

====
